---------------------------- MODULE Spec2Model ----------------------------
(***************************************************************************)
(* Model of the drone NDVI batch scripts:                                  *)
(*   scripts/drone_ndvi/flight_areas.py            tile-to-flight          *)
(*                                                  assignment and output   *)
(*   scripts/drone_ndvi/ndvi_extraction.py         sequential runner       *)
(*   scripts/drone_ndvi/parallel_ndviExtraction.py parallel runner         *)
(*                                                                         *)
(* Strings are sequences of one-character strings, so that sanitising,     *)
(* pattern matching and sorting are computed character by character.       *)
(* Python's None is the integer None (-1) where the value is numeric and   *)
(* the string NoneStr where it is a string.                                *)
(***************************************************************************)
EXTENDS Integers, Sequences, FiniteSets, TLC

None == -1
NoneStr == <<"<None>">>

(***************************************************************************)
(* Characters and strings                                                  *)
(***************************************************************************)
Digits == {"0", "1", "2", "3", "4", "5", "6", "7", "8", "9"}
Letters == {"A", "B", "F", "a", "b", "f", "g", "h", "i", "l", "t", "x"}

\* code points of the characters the model uses (str comparison order)
Ord(c) ==
  CASE c = "\t" -> 9
    [] c = " " -> 32
    [] c = "-" -> 45
    [] c = "/" -> 47
    [] c = "0" -> 48
    [] c = "1" -> 49
    [] c = "2" -> 50
    [] c = "3" -> 51
    [] c = "4" -> 52
    [] c = "5" -> 53
    [] c = "6" -> 54
    [] c = "7" -> 55
    [] c = "8" -> 56
    [] c = "9" -> 57
    [] c = "A" -> 65
    [] c = "B" -> 66
    [] c = "F" -> 70
    [] c = "_" -> 95
    [] c = "a" -> 97
    [] c = "b" -> 98
    [] c = "f" -> 102
    [] c = "g" -> 103
    [] c = "h" -> 104
    [] c = "i" -> 105
    [] c = "l" -> 108
    [] c = "t" -> 116
    [] c = "x" -> 120
    [] OTHER -> 127

IsDigit(c) == c \in Digits
IsAlnum(c) == c \in Digits \cup Letters
\* \w of the re module: alphanumeric or underscore
IsWord(c) == IsAlnum(c) \/ c = "_"

RECURSIVE StrLess(_, _)
\* s < t for Python strings
StrLess(s, t) ==
  IF t = <<>> THEN FALSE
  ELSE IF s = <<>> THEN TRUE
  ELSE IF Ord(Head(s)) # Ord(Head(t)) THEN Ord(Head(s)) < Ord(Head(t))
  ELSE StrLess(Tail(s), Tail(t))

MinStr(S) == CHOOSE s \in S : \A t \in S \ {s} : StrLess(s, t)

RECURSIVE SortedNames(_)
\* sorted(...) of a set of distinct names
SortedNames(S) ==
  IF S = {} THEN <<>>
  ELSE LET m == MinStr(S) IN <<m>> \o SortedNames(S \ {m})

RECURSIVE IntOf(_)
\* int("010") = 10
IntOf(ds) ==
  IF ds = <<>> THEN 0
  ELSE 10 * IntOf(SubSeq(ds, 1, Len(ds) - 1)) + (Ord(ds[Len(ds)]) - 48)

(***************************************************************************)
(* Flight and date discovery (both runners)                                *)
(***************************************************************************)
\* FLIGHT_FOLDER_RE = ^F(\d+)$ with re.IGNORECASE
FLIGHT_FOLDER_RE(name) ==
  /\ Len(name) >= 2
  /\ name[1] \in {"F", "f"}
  /\ \A i \in 2..Len(name) : IsDigit(name[i])

RECURSIVE DictPut(_, _, _)
\* out[k] = v on an insertion-ordered dict kept as a sequence of entries
DictPut(d, k, v) ==
  IF d = <<>> THEN <<[num |-> k, folder |-> v]>>
  ELSE IF Head(d).num = k THEN <<[num |-> k, folder |-> v]>> \o Tail(d)
  ELSE <<Head(d)>> \o DictPut(Tail(d), k, v)

RECURSIVE FoldFlightFolders(_, _)
FoldFlightFolders(names, out) ==
  IF names = <<>> THEN out
  ELSE LET child == Head(names) IN
       IF FLIGHT_FOLDER_RE(child)
       THEN FoldFlightFolders(Tail(names),
                              DictPut(out, IntOf(Tail(child)), child))
       ELSE FoldFlightFolders(Tail(names), out)

\* the dict flight_num -> folder, in insertion order
list_flight_folders(root) == FoldFlightFolders(SortedNames(root), <<>>)

\* end of the run of digits that starts at position i (i - 1 when none)
RECURSIVE DigitRunEnd(_, _)
DigitRunEnd(s, i) ==
  IF i <= Len(s) /\ IsDigit(s[i]) THEN DigitRunEnd(s, i + 1) ELSE i - 1

\* does F\d+_(\d{2}_\d{2}_\d{2}) match at position i; j is the last digit of F\d+
DateMatchAt(s, i) ==
  LET j == DigitRunEnd(s, i + 1) IN
  /\ s[i] = "F"
  /\ j >= i + 1
  /\ j + 9 <= Len(s)
  /\ s[j + 1] = "_"
  /\ IsDigit(s[j + 2]) /\ IsDigit(s[j + 3]) /\ s[j + 4] = "_"
  /\ IsDigit(s[j + 5]) /\ IsDigit(s[j + 6]) /\ s[j + 7] = "_"
  /\ IsDigit(s[j + 8]) /\ IsDigit(s[j + 9])

RECURSIVE SubNonWord(_)
\* re.sub(r"\W+", "_", s)
SubNonWord(s) ==
  IF s = <<>> THEN <<>>
  ELSE IF IsWord(Head(s)) THEN <<Head(s)>> \o SubNonWord(Tail(s))
  ELSE IF Len(s) >= 2 /\ ~IsWord(s[2]) THEN SubNonWord(Tail(s))
  ELSE <<"_">> \o SubNonWord(Tail(s))

\* the date token of a date-folder name
DateToken(parent) ==
  LET hits == {i \in 1..Len(parent) : DateMatchAt(parent, i)} IN
  IF hits # {}
  THEN LET i == CHOOSE h \in hits : \A g \in hits : h <= g
           j == DigitRunEnd(parent, i + 1)
       IN SubSeq(parent, j + 2, j + 9)
  ELSE SubNonWord(parent)

\* the date folders that hold an NDVI.data.tif, sorted by path
find_tifs_in_flight_folder(dateFolders) == SortedNames(dateFolders)


(***************************************************************************)
(* Zonal statistics for one flight (both runners)                          *)
(*                                                                         *)
(* A flight's environment env is a record                                  *)
(*   gpkg   "ok", "missing" or "unreadable": the flight's tile GeoPackage  *)
(*   tiles  the ids of the tile set, in tile-set order                     *)
(*   dates  the names of the date folders that hold an NDVI.data.tif       *)
(*   fail   per date folder: "ok", "unreadable" (rasterio.open and         *)
(*          zonal_stats both raise) or "compute" (only zonal_stats raises) *)
(* A DataFrame is the sequence of its columns; a column has its label      *)
(* name = <<stat, date token>>, the date folder src it was computed from   *)
(* (bookkeeping of the model) and its values, one per row.                 *)
(***************************************************************************)
STATS == <<"mean", "std", "count">>
DROP_COUNTS == TRUE

IdLabel == <<"id", <<>>>>
ColLabel(stat, date_tok) == <<stat, date_tok>>

\* gdf (its "id" column), or None when the file is missing or cannot be read
read_gpkg_for_flight(env) ==
  IF env.gpkg = "ok" THEN [none |-> FALSE, id |-> env.tiles]
  ELSE [none |-> TRUE, id |-> <<>>]

\* pd.DataFrame({"id": gdf_proc["id"].values})
IdFrame(tiles) == <<[name |-> IdLabel, src |-> <<>>, vals |-> tiles]>>

\* the value zonal_stats computes for a tile on a date: a number, here the tile id
StatValue(tile, parent) == tile

\* pd.DataFrame(zs)[STATS].rename(...): one column per statistic
StatFrame(tiles, parent) ==
  [k \in 1..Len(STATS) |->
     [name |-> ColLabel(STATS[k], DateToken(parent)), src |-> parent,
      vals |-> [r \in 1..Len(tiles) |-> StatValue(tiles[r], parent)]]]

\* pd.DataFrame([{k: None for k in STATS}] * len(gdf_proc)).rename(...)
EmptyFrame(tiles, parent) ==
  [k \in 1..Len(STATS) |->
     [name |-> ColLabel(STATS[k], DateToken(parent)), src |-> parent,
      vals |-> [r \in 1..Len(tiles) |-> None]]]

\* pd.concat([a, b], axis=1)
ConcatCols(a, b) == a \o b

\* c in df.columns
HasColumn(df, c) == \E i \in 1..Len(df) : df[i].name = c

\* df.drop(columns=[c]): every column labelled c goes
DropColumn(df, c) == SelectSeq(df, LAMBDA col : col.name # c)

RECURSIVE SelectColumns(_, _)
\* df[cols]: for each label of cols in turn, every column carrying that label
SelectColumns(df, cols) ==
  IF cols = <<>> THEN <<>>
  ELSE SelectSeq(df, LAMBDA col : col.name = Head(cols))
       \o SelectColumns(df, Tail(cols))

RECURSIVE DropCountColumns(_, _)
\* if DROP_COUNTS: for tok in processed_dates: drop count_<tok> when present
DropCountColumns(df, processed_dates) ==
  IF processed_dates = <<>> THEN df
  ELSE LET c == ColLabel("count", Head(processed_dates)) IN
       DropCountColumns(IF HasColumn(df, c) THEN DropColumn(df, c) ELSE df,
                        Tail(processed_dates))

RECURSIVE MeanStdLabels(_)
MeanStdLabels(processed_dates) ==
  IF processed_dates = <<>> THEN <<>>
  ELSE <<ColLabel("mean", Head(processed_dates)),
         ColLabel("std", Head(processed_dates))>>
       \o MeanStdLabels(Tail(processed_dates))

\* the final column order and selection, then the frame written to the CSV
OrderColumns(df, processed_dates) ==
  LET dropped == IF DROP_COUNTS THEN DropCountColumns(df, processed_dates) ELSE df
      cols == SelectSeq(<<IdLabel>> \o MeanStdLabels(processed_dates),
                        LAMBDA c : HasColumn(dropped, c))
  IN SelectColumns(dropped, cols)

NoCsv == [written |-> FALSE, table |-> <<>>, processed |-> <<>>]

RECURSIVE SeqDateLoop(_, _, _, _)
\* the date loop of process_flight: a failing zonal_stats gives a null frame
SeqDateLoop(tifs, env, df, done) ==
  IF tifs = <<>> THEN [df |-> df, processed |-> done]
  ELSE LET parent == Head(tifs)
           stat_df == IF env.fail[parent] = "ok"
                      THEN StatFrame(env.tiles, parent)
                      ELSE EmptyFrame(env.tiles, parent)
       IN SeqDateLoop(Tail(tifs), env, ConcatCols(df, stat_df),
                      Append(done, parent))

RECURSIVE TokensOf(_)
TokensOf(parents) ==
  IF parents = <<>> THEN <<>>
  ELSE <<DateToken(Head(parents))>> \o TokensOf(Tail(parents))

\* process_flight of the sequential runner: what it leaves in the flight folder
process_flight(env) ==
  LET tifs == find_tifs_in_flight_folder(env.dates) IN
  IF tifs = <<>> THEN NoCsv
  ELSE IF env.fail[tifs[1]] = "unreadable" THEN NoCsv
  ELSE LET r == SeqDateLoop(SortedNames(env.dates), env, IdFrame(env.tiles), <<>>)
       IN [written |-> TRUE,
           table |-> OrderColumns(r.df, TokensOf(r.processed)),
           processed |-> r.processed]

\* the worker's result dict (with the table it wrote, when it wrote one)
WorkerResult(flight_num, status, csv, n_dates) ==
  [flight_num |-> flight_num, status |-> status, csv |-> csv, n_dates |-> n_dates]

\* the status process_flight_worker returns: it has no handler around
\* rasterio.open or zonal_stats, so any raster failure reaches the enclosing
\* except and the flight is an error
WorkerStatus(env) ==
  IF read_gpkg_for_flight(env).none THEN "skip"
  ELSE IF find_tifs_in_flight_folder(env.dates) = <<>> THEN "skip"
  ELSE IF \E d \in env.dates : env.fail[d] # "ok" THEN "error"
  ELSE "ok"

\* process_flight_worker of the parallel runner
process_flight_worker(flight_num, env) ==
  IF WorkerStatus(env) # "ok"
  THEN WorkerResult(flight_num, WorkerStatus(env), NoCsv, 0)
  ELSE LET r == SeqDateLoop(SortedNames(env.dates), env, IdFrame(env.tiles), <<>>)
       IN WorkerResult(flight_num, "ok",
                       [written |-> TRUE,
                        table |-> OrderColumns(r.df, TokensOf(r.processed)),
                        processed |-> r.processed],
                       Len(r.processed))

(***************************************************************************)
(* flight_areas.py: sanitising a flight identifier                         *)
(***************************************************************************)
LayerNameLimit == 200

\* str.isspace for the characters of the model
IsSpace(c) == c \in {" ", "\t"}

\* ch if (ch.isalnum() or ch in (" ", "-", "_")) else "_"
SafeChar(ch) == IF IsAlnum(ch) \/ ch \in {" ", "-", "_"} THEN ch ELSE "_"

RECURSIVE LStrip(_)
LStrip(s) == IF s # <<>> /\ IsSpace(Head(s)) THEN LStrip(Tail(s)) ELSE s

RECURSIVE RStrip(_)
RStrip(s) ==
  IF s # <<>> /\ IsSpace(s[Len(s)]) THEN RStrip(SubSeq(s, 1, Len(s) - 1)) ELSE s

\* str.strip()
Strip(s) == RStrip(LStrip(s))

\* str.replace(" ", "_")
ReplaceSpaces(s) == [i \in 1..Len(s) |-> IF s[i] = " " THEN "_" ELSE s[i]]

\* s[:n]
Prefix(s, n) == SubSeq(s, 1, IF Len(s) < n THEN Len(s) ELSE n)

\* variant of safe_layer_name without the "flight" placeholder
safe_layer_name_NoDefault(value) ==
  LET mapped == [i \in 1..Len(value) |-> SafeChar(value[i])]
  IN Prefix(ReplaceSpaces(Strip(mapped)), LayerNameLimit)

safe_layer_name(value) ==
  LET mapped == [i \in 1..Len(value) |-> SafeChar(value[i])]
      replaced == ReplaceSpaces(Strip(mapped))
      safe == IF replaced = <<>> THEN <<"f", "l", "i", "g", "h", "t">> ELSE replaced
  IN Prefix(safe, LayerNameLimit)

(***************************************************************************)
(* flight_areas.py: geometry of the assignment                             *)
(*                                                                         *)
(* The plane is a strip of unit cells 0, 1, 2, ...; a geometry is the set  *)
(* of cells it covers (the empty set is an empty geometry), cell c being   *)
(* the closed square [c, c + 1] x [0, 1].  A polygon need not be           *)
(* connected, so its bounding box can meet a tile that the polygon itself  *)
(* does not.                                                               *)
(***************************************************************************)
MinOf(S) == CHOOSE x \in S : \A y \in S : x <= y
MaxOf(S) == CHOOSE x \in S : \A y \in S : x >= y

\* g.bounds of a non-empty geometry (the y extent is [0, 1] for all)
Bounds(g) == [minx |-> MinOf(g), maxx |-> MaxOf(g) + 1]

\* variant of BoundsIntersect that asks for the second box to lie within the first
BoundsIntersect_Within(a, b) == a.minx <= b.minx /\ b.maxx <= a.maxx

\* the rtree test: closed boxes that overlap or touch
BoundsIntersect(a, b) == a.minx <= b.maxx /\ b.minx <= a.maxx

\* g.intersection(pgeom).is_empty: the closed geometries share no point
InterIsEmpty(g, pgeom) ==
  ~ \E c \in g, d \in pgeom : c - d \in {-1, 0, 1}

\* g.intersection(pgeom).area
InterArea(g, pgeom) == Cardinality(g \cap pgeom)

\* variant of FlightValMissing that compares with "" without stripping
FlightValMissing_NoStrip(flight_val) == flight_val = NoneStr \/ flight_val = <<>>

\* flight_val is None or (isinstance(flight_val, str) and flight_val.strip() == "")
FlightValMissing(flight_val) == flight_val = NoneStr \/ Strip(flight_val) = <<>>

RECURSIVE BestLoop_KeepsZero(_, _, _, _, _)
\* variant of BestLoop that takes a better candidate but never raises best_area
BestLoop_KeepsZero(g, poly_geoms, cands, best_pid, best_area) ==
  IF cands = <<>> THEN [pid |-> best_pid, area |-> best_area]
  ELSE LET pid == Head(cands)
           a == InterArea(g, poly_geoms[pid])
       IN IF pid \notin DOMAIN poly_geoms
          THEN BestLoop_KeepsZero(g, poly_geoms, Tail(cands), best_pid, best_area)
          ELSE IF InterIsEmpty(g, poly_geoms[pid])
          THEN BestLoop_KeepsZero(g, poly_geoms, Tail(cands), best_pid, best_area)
          ELSE IF a > best_area
          THEN BestLoop_KeepsZero(g, poly_geoms, Tail(cands), pid, best_area)
          ELSE BestLoop_KeepsZero(g, poly_geoms, Tail(cands), best_pid, best_area)

RECURSIVE BestLoop(_, _, _, _, _)
\* the loop over the candidates: best_pid (None when there is none) and best_area
BestLoop(g, poly_geoms, cands, best_pid, best_area) ==
  IF cands = <<>> THEN [pid |-> best_pid, area |-> best_area]
  ELSE LET pid == Head(cands)
           a == InterArea(g, poly_geoms[pid])
       IN IF pid \notin DOMAIN poly_geoms
          THEN BestLoop(g, poly_geoms, Tail(cands), best_pid, best_area)
          ELSE IF InterIsEmpty(g, poly_geoms[pid])
          THEN BestLoop(g, poly_geoms, Tail(cands), best_pid, best_area)
          ELSE IF a > best_area
          THEN BestLoop(g, poly_geoms, Tail(cands), pid, a)
          ELSE BestLoop(g, poly_geoms, Tail(cands), best_pid, best_area)

BestCandidate(g, poly_geoms, cands) == BestLoop(g, poly_geoms, cands, None, 0)

(***************************************************************************)
(* Inputs                                                                  *)
(***************************************************************************)
MaxTiles == 2
MaxDates == 2
MaxCpu == 4
MaxWorkersCfg == 2
NumPolys == 2
NumTiles == 2
MaxSanLen == 3

\* directories under ROOT_DATA
RootNames ==
  { <<"F", "1">>, <<"F", "0", "1">>, <<"F", "2">>, <<"F", "1", "0">>,
    <<"F", "x">> }

\* date folders of a flight: two with the same date token, a later date, one
\* without the F<n>_ prefix whose sanitized name is that same token, and one
\* that falls back to its sanitized name
DateFolderNames ==
  { <<"F", "1", "_", "2", "4", "_", "0", "3", "_", "2", "8">>,
    <<"F", "1", "_", "2", "4", "_", "0", "3", "_", "2", "8", "_", "b">>,
    <<"F", "1", "_", "2", "4", "_", "0", "4", "_", "0", "1">>,
    <<"2", "4", "_", "0", "3", "_", "2", "8">>,
    <<"2", "4", "-", "0", "4", " ", "-", "0", "1">> }

\* tile sets: ids in an order that is not the sorted one
TileSets == { [i \in 1..n |-> n + 1 - i] : n \in 0..MaxTiles }

RasterStates == {"ok", "unreadable", "compute"}

\* the tile sets a GeoPackage in state g yields
TileSetsOf(g) == IF g = "ok" THEN TileSets ELSE {<<>>}

FlightEnvs ==
  UNION { UNION { { [gpkg |-> g, tiles |-> t, dates |-> ds, fail |-> f] :
                      f \in [ds -> RasterStates], t \in TileSetsOf(g) } :
                  g \in {"ok", "missing", "unreadable"} } :
          ds \in {x \in SUBSET DateFolderNames : Cardinality(x) <= MaxDates} }

NoEnv == [gpkg |-> "missing", tiles |-> <<>>, dates |-> {}, fail |-> <<>>]

\* geometries of grid tiles and of flight polygons (sets of cells): tiles
\* apart from, next to, inside the box of, and partly or wholly covered by
\* a polygon
TileGeoms == { {}, {0}, {1}, {0, 1, 2} }
PolyGeoms == { {}, {0, 1}, {0, 2}, {2} }

\* FlightID values of a polygon: null, empty, blank, and a valid one
FlightIDs == { NoneStr, <<>>, <<" ">>, <<"A">> }

\* flight identifiers of assigned tiles: three that sanitize to A_1
GroupIDs ==
  { <<"A", " ", "1">>, <<"A", "_", "1">>, <<"A", "/", "1">>, <<"B">>, <<"b">> }

SanChars == {"a", "1", " ", "-", "_", "/", "\t"}

Repeat(c, n) == [i \in 1..n |-> c]

ShortStrings(n) == UNION { [1..k -> SanChars] : k \in 0..n }

\* identifiers around the length limit, with every kind of first and last character
LongStrings ==
  { pre \o Repeat("a", n) \o suf :
      pre \in ShortStrings(1), suf \in ShortStrings(1),
      n \in (LayerNameLimit - 2)..(LayerNameLimit + 1) }

SanInputs == ShortStrings(MaxSanLen) \cup LongStrings

(***************************************************************************)
(* State                                                                   *)
(***************************************************************************)
VARIABLES
  root,            \* names of the directories under ROOT_DATA
  flight_folders,  \* the dict of list_flight_folders, in insertion order
  pcSeq,           \* sequential main: "start", "loop", "done" ("off": not run)
  fi,              \* sequential main: position in flight_folders.items()
  handled,         \* sequential main: flight numbers in the order handled
  lastOut,         \* sequential main: whether the flight handled last got its
                   \* CSV, and the date folders in the order it processed them
  cpu_count,       \* os.cpu_count(): None or a positive integer
  MAX_WORKERS,     \* the configured pool size: None or a positive integer
  workers,         \* max_workers of the ProcessPoolExecutor
  futState,        \* per flight: "pending", "running", "done" or "yielded"
  futRes,          \* per flight: the worker's status, "raised" when the future
                   \* holds an exception, "none" before it finishes
  results,         \* parallel main: the results list, in completion order
  summary,         \* parallel main: the rows of the summary, in printed order
  pcPar,           \* parallel main: "start", "pool", "done" ("off")
  env,             \* one flight: its environment
  seqCsv,          \* one flight: what process_flight left
  workerRes,       \* one flight: what process_flight_worker returned
  pcFlight,        \* one flight: which of the two have run ("off")
  polys,           \* polygon layer: rows [geometry, FlightID], index 1..
  grid,            \* tile grid: the geometry of each row read so far
  ti,              \* assign_tiles_to_flights: next grid row
  assigned,        \* assign_tiles_to_flights: the assigned records
  pcAssign,        \* "loop", "returned", "raised" ("off")
  sanIn,           \* safe_layer_name: the value given
  sanOut,          \* safe_layer_name(sanIn)
  sanAgain,        \* safe_layer_name(sanOut)
  pcSan,           \* "start", "once", "twice" ("off")
  groups,          \* write_per_flight_individual_gpkg: the flight identifiers
                   \* of assigned_gdf
  gi,              \* position in the groupby iteration
  files,           \* out_dir: file name -> the flight identifier whose tiles
                   \* it holds ("stale": left by an earlier run)
  written,         \* the written list
  warnings,        \* warnings logged by the writer
  pcWrite          \* "loop", "done" ("off")

rootVars == <<root, flight_folders>>
seqVars == <<pcSeq, fi, handled, lastOut>>
parVars ==
  <<cpu_count, MAX_WORKERS, workers, futState, futRes, results, summary, pcPar>>
flightVars == <<env, seqCsv, workerRes, pcFlight>>
assignVars == <<polys, grid, ti, assigned, pcAssign>>
sanVars == <<sanIn, sanOut, sanAgain, pcSan>>
writeVars == <<groups, gi, files, written, warnings, pcWrite>>

vars ==
  <<rootVars, seqVars, parVars, flightVars, assignVars, sanVars, writeVars>>

NoRun == [written |-> FALSE, processed |-> <<>>]
NoResult == WorkerResult(0, "none", NoCsv, 0)

RootOff == root = {} /\ flight_folders = <<>>

SeqOff ==
  /\ pcSeq = "off" /\ fi = 1 /\ handled = <<>> /\ lastOut = NoRun

ParOff ==
  /\ cpu_count = None /\ MAX_WORKERS = None /\ workers = 0
  /\ futState = <<>> /\ futRes = <<>> /\ results = <<>> /\ summary = <<>>
  /\ pcPar = "off"

FlightOff ==
  /\ env = NoEnv /\ seqCsv = NoCsv /\ workerRes = NoResult /\ pcFlight = "off"

AssignOff ==
  /\ polys = <<>> /\ grid = <<>> /\ ti = 1 /\ assigned = <<>> /\ pcAssign = "off"

SanOff ==
  /\ sanIn = <<>> /\ sanOut = <<>> /\ sanAgain = <<>> /\ pcSan = "off"

WriteOff ==
  /\ groups = {} /\ gi = 1 /\ files = <<>> /\ written = <<>> /\ warnings = 0
  /\ pcWrite = "off"

(***************************************************************************)
(* Sequential runner: main of ndvi_extraction.py                           *)
(***************************************************************************)
notSeq == <<parVars, flightVars, assignVars, sanVars, writeVars>>

SeqInit ==
  /\ root \in SUBSET RootNames
  /\ flight_folders = <<>>
  /\ pcSeq = "start" /\ fi = 1 /\ handled = <<>> /\ lastOut = NoRun

\* what main's loop body leaves for a flight in environment e
HandleFlight(e) ==
  LET out == IF read_gpkg_for_flight(e).none THEN NoCsv ELSE process_flight(e)
  IN [written |-> out.written, processed |-> out.processed]

\* the outcomes of the loop body over the environments a flight can have
FlightOutcomes == { HandleFlight(e) : e \in FlightEnvs }

\* flight_folders = list_flight_folders(ROOT_DATA); return when there are none
SeqDiscover ==
  /\ pcSeq = "start"
  /\ flight_folders' = list_flight_folders(root)
  /\ pcSeq' = IF flight_folders' = <<>> THEN "done" ELSE "loop"
  /\ UNCHANGED <<root, fi, handled, lastOut, notSeq>>

\* one iteration of the loop over flight_folders.items()
SeqFlight(out) ==
  /\ pcSeq = "loop"
  /\ fi <= Len(flight_folders)
  /\ handled' = Append(handled, flight_folders[fi].num)
  /\ lastOut' = out
  /\ fi' = fi + 1
  /\ UNCHANGED <<root, flight_folders, pcSeq, notSeq>>

\* the loop is exhausted: "All done."
SeqFinish ==
  /\ pcSeq = "loop"
  /\ fi > Len(flight_folders)
  /\ pcSeq' = "done"
  /\ UNCHANGED <<root, flight_folders, fi, handled, lastOut, notSeq>>

(***************************************************************************)
(* Parallel runner: main of parallel_ndviExtraction.py                     *)
(***************************************************************************)
notPar == <<seqVars, flightVars, assignVars, sanVars, writeVars>>

ParInit ==
  /\ root \in SUBSET RootNames
  /\ flight_folders = <<>>
  /\ cpu_count \in {None} \cup (1..MaxCpu)
  /\ MAX_WORKERS \in {None} \cup (1..MaxWorkersCfg)
  /\ workers = 0
  /\ futState = <<>> /\ futRes = <<>> /\ results = <<>> /\ summary = <<>>
  /\ pcPar = "start"

Min2(a, b) == IF a <= b THEN a ELSE b
Max2(a, b) == IF a >= b THEN a ELSE b

\* variant of PoolSize without the floor of one worker: min(cpu_count - 1, n_tasks)
PoolSize_NoFloor(cpu, max_workers, n_tasks) ==
  LET cpus == IF cpu = None THEN 1 ELSE cpu
  IN IF max_workers # None THEN max_workers
     ELSE Min2(cpus - 1, n_tasks)

\* workers = MAX_WORKERS if MAX_WORKERS is not None else min(default_workers, n_tasks)
PoolSize(cpu, max_workers, n_tasks) ==
  LET cpus == IF cpu = None THEN 1 ELSE cpu
      default_workers == Max2(1, cpus - 1)
  IN IF max_workers # None THEN max_workers
     ELSE Min2(default_workers, n_tasks)

RECURSIVE InsertByFlightNum(_, _)
InsertByFlightNum(r, sorted) ==
  IF sorted = <<>> THEN <<r>>
  ELSE IF r.flight_num < Head(sorted).flight_num THEN <<r>> \o sorted
  ELSE <<Head(sorted)>> \o InsertByFlightNum(r, Tail(sorted))

\* variant of SortByFlightNum that leaves the completion order (no sort)
SortByFlightNum_Unsorted(rs) == rs

RECURSIVE SortByFlightNum(_)
\* sorted(results, key=lambda x: x.get("flight_num", 0)), a stable sort
SortByFlightNum(rs) ==
  IF rs = <<>> THEN <<>>
  ELSE InsertByFlightNum(rs[Len(rs)], SortByFlightNum(SubSeq(rs, 1, Len(rs) - 1)))

\* the statuses process_flight_worker returns over a flight's environments
WorkerStatuses == { WorkerStatus(e) : e \in FlightEnvs }

\* list the flights, size the pool and submit one task per flight
ParDiscover ==
  /\ pcPar = "start"
  /\ flight_folders' = list_flight_folders(root)
  /\ IF flight_folders' = <<>>
     THEN /\ pcPar' = "done"
          /\ UNCHANGED <<workers, futState, futRes>>
     ELSE /\ pcPar' = "pool"
          /\ workers' = PoolSize(cpu_count, MAX_WORKERS, Len(flight_folders'))
          /\ futState' = [f \in {flight_folders'[i].num :
                                   i \in 1..Len(flight_folders')} |-> "pending"]
          /\ futRes' = [f \in DOMAIN futState' |-> "none"]
  /\ UNCHANGED <<root, cpu_count, MAX_WORKERS, results, summary, notPar>>

\* a free worker process takes the task of flight f
WorkerStart(f) ==
  /\ pcPar = "pool"
  /\ futState[f] = "pending"
  /\ Cardinality({g \in DOMAIN futState : futState[g] = "running"}) < workers
  /\ futState' = [futState EXCEPT ![f] = "running"]
  /\ UNCHANGED <<rootVars, cpu_count, MAX_WORKERS, workers, futRes,
                 results, summary, pcPar, notPar>>

\* process_flight_worker returns its result dict for flight f
WorkerReturn(f, status) ==
  /\ pcPar = "pool"
  /\ futState[f] = "running"
  /\ futState' = [futState EXCEPT ![f] = "done"]
  /\ futRes' = [futRes EXCEPT ![f] = status]
  /\ UNCHANGED <<rootVars, cpu_count, MAX_WORKERS, workers,
                 results, summary, pcPar, notPar>>

\* the task of flight f ends with an exception set on its future
WorkerRaise(f) ==
  /\ pcPar = "pool"
  /\ futState[f] = "running"
  /\ futState' = [futState EXCEPT ![f] = "done"]
  /\ futRes' = [futRes EXCEPT ![f] = "raised"]
  /\ UNCHANGED <<rootVars, cpu_count, MAX_WORKERS, workers,
                 results, summary, pcPar, notPar>>

\* fut.result(), or the error dict main builds when it raises
CollectedResult(f, res) ==
  [flight_num |-> f, status |-> IF res = "raised" THEN "error" ELSE res]

\* as_completed yields the finished future of flight f: one loop iteration
Collect(f) ==
  /\ pcPar = "pool"
  /\ futState[f] = "done"
  /\ futState' = [futState EXCEPT ![f] = "yielded"]
  /\ results' = Append(results, CollectedResult(f, futRes[f]))
  /\ UNCHANGED <<rootVars, cpu_count, MAX_WORKERS, workers, futRes,
                 summary, pcPar, notPar>>

\* every future was yielded: print the summary sorted by flight number
ParSummary ==
  /\ pcPar = "pool"
  /\ \A f \in DOMAIN futState : futState[f] = "yielded"
  /\ summary' = SortByFlightNum(results)
  /\ pcPar' = "done"
  /\ UNCHANGED <<rootVars, cpu_count, MAX_WORKERS, workers,
                 futState, futRes, results, notPar>>

(***************************************************************************)
(* One flight, run by process_flight and by process_flight_worker          *)
(***************************************************************************)
notFlight == <<rootVars, seqVars, parVars, assignVars, sanVars, writeVars>>

FlightInit ==
  /\ env \in FlightEnvs
  /\ seqCsv = NoCsv /\ workerRes = NoResult /\ pcFlight = "start"

\* main of the sequential runner handles the flight
RunProcessFlight ==
  /\ pcFlight \in {"start", "worker"}
  /\ seqCsv' = IF read_gpkg_for_flight(env).none THEN NoCsv
               ELSE process_flight(env)
  /\ pcFlight' = IF pcFlight = "start" THEN "seq" ELSE "both"
  /\ UNCHANGED <<env, workerRes, notFlight>>

\* a worker of the parallel runner handles the flight
RunWorker(flight_num) ==
  /\ pcFlight \in {"start", "seq"}
  /\ workerRes' = process_flight_worker(flight_num, env)
  /\ pcFlight' = IF pcFlight = "start" THEN "worker" ELSE "both"
  /\ UNCHANGED <<env, seqCsv, notFlight>>

(***************************************************************************)
(* flight_areas.py: assign_tiles_to_flights                                *)
(***************************************************************************)
notAssign == <<rootVars, seqVars, parVars, flightVars, sanVars, writeVars>>

AssignInit ==
  /\ polys \in [1..NumPolys -> [geometry : PolyGeoms, FlightID : FlightIDs]]
  /\ grid = <<>>
  /\ ti = 1 /\ assigned = <<>> /\ pcAssign = "loop"

\* poly_geoms: the polygons with a non-empty geometry, by row index
PolyGeomsOf(ps) ==
  [i \in {j \in 1..Len(ps) : ps[j].geometry # {}} |-> ps[i].geometry]

\* idx.intersection(g.bounds): the indexed polygons whose box meets the tile's
Candidates(g, poly_geoms) ==
  IF g = {} THEN {}
  ELSE {i \in DOMAIN poly_geoms :
          BoundsIntersect(Bounds(poly_geoms[i]), Bounds(g))}

\* the orders in which a set can be enumerated
Orders(S) ==
  {o \in [1..Cardinality(S) -> S] : \A x \in S : \E i \in DOMAIN o : o[i] = x}

\* the body of the loop over the grid rows, for row t and the candidates in
\* the order cands: the records appended (none or one)
AssignRow(t, g, ps, cands) ==
  LET best == BestCandidate(g, PolyGeomsOf(ps), cands) IN
  IF g = {} THEN <<>>
  ELSE IF best.pid = None THEN <<>>
  ELSE IF FlightValMissing(ps[best.pid].FlightID) THEN <<>>
  ELSE <<[tile |-> t, poly_fid |-> best.pid,
          poly_FlightID |-> ps[best.pid].FlightID,
          poly_overlap_area |-> best.area]>>

\* one iteration of the loop over grid_gdf.iterrows(): the next row has
\* geometry g, and the index yields its candidates in the order cands
AssignTile(g, cands) ==
  /\ pcAssign = "loop"
  /\ Len(grid) < NumTiles
  /\ grid' = Append(grid, g)
  /\ cands \in Orders(Candidates(g, PolyGeomsOf(polys)))
  /\ assigned' = assigned \o AssignRow(ti, g, polys, cands)
  /\ ti' = ti + 1
  /\ UNCHANGED <<polys, pcAssign, notAssign>>

\* the grid has no more rows: raise when nothing was assigned, else return
\* the frame
AssignFinish ==
  /\ pcAssign = "loop"
  /\ ti = Len(grid) + 1
  /\ pcAssign' = IF assigned = <<>> THEN "raised" ELSE "returned"
  /\ UNCHANGED <<polys, grid, ti, assigned, notAssign>>

(***************************************************************************)
(* flight_areas.py: safe_layer_name applied, and applied to its result     *)
(***************************************************************************)
notSan == <<rootVars, seqVars, parVars, flightVars, assignVars, writeVars>>

SanInit ==
  /\ sanIn \in SanInputs
  /\ sanOut = <<>> /\ sanAgain = <<>> /\ pcSan = "start"

Sanitize ==
  /\ pcSan = "start"
  /\ sanOut' = safe_layer_name(sanIn)
  /\ pcSan' = "once"
  /\ UNCHANGED <<sanIn, sanAgain, notSan>>

SanitizeAgain ==
  /\ pcSan = "once"
  /\ sanAgain' = safe_layer_name(sanOut)
  /\ pcSan' = "twice"
  /\ UNCHANGED <<sanIn, sanOut, notSan>>

(***************************************************************************)
(* flight_areas.py: write_per_flight_individual_gpkg                       *)
(***************************************************************************)
notWrite == <<rootVars, seqVars, parVars, flightVars, assignVars, sanVars>>

\* f"flight_{safe_name}.gpkg"
OutName(safe_name) == <<"flight_">> \o safe_name \o <<".gpkg">>

Stale == <<"stale">>

WriteInit ==
  /\ groups \in (SUBSET GroupIDs) \ {{}}
  /\ files \in { <<>>,
                 [n \in {OutName(<<"A", "_", "1">>)} |-> Stale] }
  /\ gi = 1 /\ written = <<>> /\ warnings = 0 /\ pcWrite = "loop"

\* assigned_gdf.groupby(flight_col) iterates the keys in sorted order
GroupKeys == SortedNames(groups)

\* out_gpkg.unlink() when it exists, then group.to_file(out_gpkg)
WriteFile(fs, name, fid_value) ==
  [n \in (DOMAIN fs) \cup {name} |-> IF n = name THEN fid_value ELSE fs[n]]

\* one iteration of the loop over the groups
WriteGroup ==
  /\ pcWrite = "loop"
  /\ gi <= Len(GroupKeys)
  /\ LET fid_value == GroupKeys[gi]
         out_gpkg == OutName(safe_layer_name(fid_value))
     IN /\ files' = WriteFile(files, out_gpkg, fid_value)
        /\ written' = Append(written, out_gpkg)
  /\ gi' = gi + 1
  /\ UNCHANGED <<groups, warnings, pcWrite, notWrite>>

\* the loop is exhausted: return written
WriteDone ==
  /\ pcWrite = "loop"
  /\ gi > Len(GroupKeys)
  /\ pcWrite' = "done"
  /\ UNCHANGED <<groups, gi, files, written, warnings, notWrite>>

(***************************************************************************)
(* Specifications                                                          *)
(***************************************************************************)
\* the sequential runner
SpecSeqInit ==
  SeqInit /\ ParOff /\ FlightOff /\ AssignOff /\ SanOff /\ WriteOff
SpecSeqNext ==
  \/ SeqDiscover
  \/ \E out \in FlightOutcomes : SeqFlight(out)
  \/ SeqFinish
SpecSeq == SpecSeqInit /\ [][SpecSeqNext]_vars

\* the parallel runner
SpecParInit ==
  ParInit /\ SeqOff /\ FlightOff /\ AssignOff /\ SanOff /\ WriteOff
SpecParNext ==
  \/ ParDiscover
  \/ \E f \in DOMAIN futState : WorkerStart(f)
  \/ \E st \in WorkerStatuses : \E f \in DOMAIN futState : WorkerReturn(f, st)
  \/ \E f \in DOMAIN futState : WorkerRaise(f)
  \/ \E f \in DOMAIN futState : Collect(f)
  \/ ParSummary
SpecPar == SpecParInit /\ [][SpecParNext]_vars

\* one flight under both runners
SpecFlightInit ==
  FlightInit /\ RootOff /\ SeqOff /\ ParOff /\ AssignOff /\ SanOff /\ WriteOff
SpecFlightNext ==
  \/ RunProcessFlight
  \/ \E n \in 1..2 : RunWorker(n)
SpecFlight == SpecFlightInit /\ [][SpecFlightNext]_vars

\* the tile assignment
SpecAssignInit ==
  AssignInit /\ RootOff /\ SeqOff /\ ParOff /\ FlightOff /\ SanOff /\ WriteOff
SpecAssignNext ==
  \/ \E g \in TileGeoms :
       \E cands \in UNION {Orders(S) : S \in SUBSET (1..NumPolys)} :
         AssignTile(g, cands)
  \/ AssignFinish
SpecAssign == SpecAssignInit /\ [][SpecAssignNext]_vars

\* the sanitizer
SpecSanInit ==
  SanInit /\ RootOff /\ SeqOff /\ ParOff /\ FlightOff /\ AssignOff /\ WriteOff
SpecSanNext ==
  \/ Sanitize
  \/ SanitizeAgain
SpecSan == SpecSanInit /\ [][SpecSanNext]_vars

\* the per-flight writer
SpecWriteInit ==
  WriteInit /\ RootOff /\ SeqOff /\ ParOff /\ FlightOff /\ AssignOff /\ SanOff
SpecWriteNext ==
  \/ WriteGroup
  \/ WriteDone
SpecWrite == SpecWriteInit /\ [][SpecWriteNext]_vars

(***************************************************************************)
(* Properties                                                              *)
(***************************************************************************)
FlightNums == {flight_folders[i].num : i \in 1..Len(flight_folders)}

\* the status the summary must show for flight f
OwnStatus(f) == IF futRes[f] = "raised" THEN "error" ELSE futRes[f]

ProcessedTiles == 1..(ti - 1)
AssignedTiles == {assigned[i].tile : i \in 1..Len(assigned)}
PolyIds == 1..Len(polys)
AreaOf(t, p) == InterArea(grid[t], polys[p].geometry)

\* the polygons of maximum, non-zero intersection area with tile t
MaxPolys(t) ==
  {p \in PolyIds : AreaOf(t, p) > 0 /\ \A q \in PolyIds : AreaOf(t, q) <= AreaOf(t, p)}

\* a FlightID that is null, empty or whitespace only
BlankFlightID(v) == v = NoneStr \/ \A i \in 1..Len(v) : v[i] \in {" ", "\t"}

\* C2: an assigned tile records a polygon whose intersection area with the
\* tile is at least that of every other polygon, with that area; and a tile
\* with a polygon of strictly largest overlap and a non-empty flight
\* identifier is assigned to it, whatever the order of polygons and candidates.
C2_MaxOverlapChosen ==
  /\ \A i \in 1..Len(assigned) :
       /\ \A p \in PolyIds :
            AreaOf(assigned[i].tile, p)
              <= AreaOf(assigned[i].tile, assigned[i].poly_fid)
       /\ assigned[i].poly_overlap_area
            = AreaOf(assigned[i].tile, assigned[i].poly_fid)
  /\ \A t \in ProcessedTiles : \A p \in PolyIds :
       ( /\ MaxPolys(t) = {p}
         /\ ~BlankFlightID(polys[p].FlightID) )
       => \E i \in 1..Len(assigned) :
            assigned[i].tile = t /\ assigned[i].poly_fid = p

\* C2 witness: a tile overlapped by both polygons with different areas is
\* assigned to the larger one, which was inserted second
C2_Witness ==
  \E i \in 1..Len(assigned) :
    /\ assigned[i].poly_fid = 2
    /\ AreaOf(assigned[i].tile, 1) > 0
    /\ AreaOf(assigned[i].tile, 1) < AreaOf(assigned[i].tile, 2)

\* C3: each tile is assigned at most once; an assigned tile carries the
\* FlightID of its recorded polygon, which is a maximum-overlap polygon and
\* whose FlightID is not null, empty or blank; a tile all of whose
\* maximum-overlap polygons have such a FlightID is dropped, also when a
\* polygon of smaller overlap has a valid one; a tile no polygon overlaps
\* is dropped.
C3_AssignedOnlyWithFlightID ==
  /\ \A i, j \in 1..Len(assigned) :
       i # j => assigned[i].tile # assigned[j].tile
  /\ \A i \in 1..Len(assigned) :
       /\ assigned[i].tile \in ProcessedTiles
       /\ assigned[i].poly_fid \in MaxPolys(assigned[i].tile)
       /\ assigned[i].poly_FlightID = polys[assigned[i].poly_fid].FlightID
       /\ ~BlankFlightID(assigned[i].poly_FlightID)
  /\ \A t \in ProcessedTiles :
       (\A p \in MaxPolys(t) : BlankFlightID(polys[p].FlightID))
       => t \notin AssignedTiles

\* C3 witness: a dropped tile whose largest overlap is with a polygon of
\* whitespace-only FlightID, while a smaller overlap has a valid FlightID
C3_Witness ==
  \E t \in ProcessedTiles : \E p, q \in PolyIds :
    /\ t \notin AssignedTiles
    /\ MaxPolys(t) = {p}
    /\ polys[p].FlightID = <<" ">>
    /\ AreaOf(t, q) > 0
    /\ ~BlankFlightID(polys[q].FlightID)

\* the polygons whose bounding box overlaps that of tile t; boxes that only
\* touch along an edge are not counted, which favours the statement
BoxCandidates(t) ==
  IF grid[t] = {} THEN {}
  ELSE {p \in PolyIds :
          /\ polys[p].geometry # {}
          /\ Bounds(polys[p].geometry).minx < Bounds(grid[t]).maxx
          /\ Bounds(grid[t]).minx < Bounds(polys[p].geometry).maxx}

\* C4 as stated: the returned frame has at most as many tiles as the grid,
\* and every excluded tile has no bounding-box candidate or only candidates
\* with an empty identifier.
C4_Original ==
  pcAssign = "returned" =>
    /\ Len(assigned) <= Len(grid)
    /\ \A t \in ProcessedTiles \ AssignedTiles :
         \A p \in BoxCandidates(t) : BlankFlightID(polys[p].FlightID)

\* C4 as amended: at most as many tiles out as in, and every excluded tile
\* either has no polygon of non-zero intersection area or has a
\* maximum-overlap polygon whose flight identifier is empty or missing.
C4_Excluded ==
  /\ Len(assigned) <= ti - 1
  /\ \A t \in ProcessedTiles \ AssignedTiles :
       \/ \A p \in PolyIds : AreaOf(t, p) = 0
       \/ \E p \in MaxPolys(t) : BlankFlightID(polys[p].FlightID)

\* C4 witness: an excluded tile and an assigned one, the excluded one with a
\* bounding-box candidate that has a valid flight identifier
C4_Witness ==
  /\ pcAssign = "returned"
  /\ Len(assigned) < Len(grid)
  /\ \E t \in ProcessedTiles \ AssignedTiles : \E p \in BoxCandidates(t) :
       ~BlankFlightID(polys[p].FlightID)

\* the columns of a table computed from date folder d
ColumnsFrom(table, d) == {i \in 1..Len(table) : table[i].src = d}

\* C5: when process_flight has run on a flight with tiles and two or more
\* dated rasters, every date whose raster cannot be read (the first
\* discovered one included) has its columns in the written CSV, null for
\* every tile, and all the dates were processed.
C5_ReadFailureTolerated ==
  ( /\ pcFlight \in {"seq", "both"}
    /\ env.gpkg = "ok" /\ env.tiles # <<>>
    /\ Cardinality(env.dates) >= 2 ) =>
    \A d \in env.dates :
      env.fail[d] = "unreadable" =>
        /\ seqCsv.written
        /\ ColumnsFrom(seqCsv.table, d) # {}
        /\ \A i \in ColumnsFrom(seqCsv.table, d) :
             /\ Len(seqCsv.table[i].vals) = Len(env.tiles)
             /\ \A r \in 1..Len(env.tiles) : seqCsv.table[i].vals[r] = None
        /\ seqCsv.processed = SortedNames(env.dates)

Flight == <<"f", "l", "i", "g", "h", "t">>
SafeOutChar(c) == IsAlnum(c) \/ c \in {"-", "_"}

\* C6: safe_layer_name(s) is non-empty, at most 200 long and made of
\* alphanumerics, hyphens and underscores; it is "flight" when s holds
\* nothing but spaces; when s has no space at either end and fits the limit,
\* the result keeps its safe characters in place and has an underscore for
\* every space; and applying safe_layer_name to the result returns it.
C6_TotalIdempotent ==
  /\ pcSan \in {"once", "twice"} =>
       /\ sanOut # <<>>
       /\ Len(sanOut) <= LayerNameLimit
       /\ \A i \in 1..Len(sanOut) : SafeOutChar(sanOut[i])
       /\ (\A i \in 1..Len(sanIn) : sanIn[i] = " ") => sanOut = Flight
       /\ ( /\ sanIn # <<>>
            /\ sanIn[1] # " " /\ sanIn[Len(sanIn)] # " "
            /\ Len(sanIn) <= LayerNameLimit )
          => /\ Len(sanOut) = Len(sanIn)
             /\ \A i \in 1..Len(sanIn) :
                  /\ sanIn[i] = " " => sanOut[i] = "_"
                  /\ SafeOutChar(sanIn[i]) => sanOut[i] = sanIn[i]
  /\ pcSan = "twice" => sanAgain = sanOut

\* C6 witness: an identifier over the limit with a leading space and an
\* unsafe last character, sanitized twice
C6_Witness ==
  /\ pcSan = "twice"
  /\ Len(sanIn) > LayerNameLimit
  /\ sanIn[1] = " "
  /\ sanIn[Len(sanIn)] = "/"
  /\ Len(sanOut) = LayerNameLimit

\* C7: when the writer is done and has logged no warning, every flight
\* identifier of the assigned tiles still has a file holding its tiles.
C7_NoSilentOverwrite ==
  (pcWrite = "done" /\ warnings = 0) =>
    \A fid_value \in groups : \E n \in DOMAIN files : files[n] = fid_value

\* C8: the sequential runner handles the flights in ascending flight number,
\* and processes the dated rasters of a flight in lexical order of their
\* date-folder names.
C8_AscendingOrder ==
  /\ \A i, j \in 1..Len(handled) : i < j => handled[i] < handled[j]
  /\ \A i, j \in 1..Len(lastOut.processed) :
       i < j => StrLess(lastOut.processed[i], lastOut.processed[j])

LabelsOf(table) == [i \in 1..Len(table) |-> table[i].name]

\* one row per tile in tile-set order, and the columns id, then mean and std
\* of each processed date in processing order
TableShape(csv, tiles) ==
  /\ LabelsOf(csv.table) = <<IdLabel>> \o MeanStdLabels(TokensOf(csv.processed))
  /\ csv.table[1].vals = tiles
  /\ \A i \in 1..Len(csv.table) : Len(csv.table[i].vals) = Len(tiles)

\* C10: the table written for a flight, by process_flight and by
\* process_flight_worker, has one row per tile in tile-set order and exactly
\* the columns id, mean_<d1>, std_<d1>, ..., mean_<dk>, std_<dk> for the
\* dates d1..dk in processing order, for every set of date-folder names.
C10_TableShape ==
  env.tiles # <<>> =>
    /\ (pcFlight \in {"seq", "both"} /\ seqCsv.written)
         => TableShape(seqCsv, env.tiles)
    /\ (pcFlight \in {"worker", "both"} /\ workerRes.csv.written)
         => TableShape(workerRes.csv, env.tiles)

\* C11: when process_flight_worker has run on a flight with tiles and two or
\* more dated rasters, a raster that cannot be read or whose zonal statistics
\* fail does not abort the flight: the worker returns status "ok" with
\* n_dates the number of dated rasters, the CSV is written with all the
\* dates processed, and the columns of each failed date are null for every
\* tile.
C11_WorkerToleratesRasterFailure ==
  ( /\ pcFlight \in {"worker", "both"}
    /\ env.gpkg = "ok" /\ env.tiles # <<>>
    /\ Cardinality(env.dates) >= 2 ) =>
    \A d \in env.dates :
      env.fail[d] # "ok" =>
        /\ workerRes.status = "ok"
        /\ workerRes.n_dates = Cardinality(env.dates)
        /\ workerRes.csv.written
        /\ workerRes.csv.processed = SortedNames(env.dates)
        /\ ColumnsFrom(workerRes.csv.table, d) # {}
        /\ \A i \in ColumnsFrom(workerRes.csv.table, d) :
             /\ Len(workerRes.csv.table[i].vals) = Len(env.tiles)
             /\ \A r \in 1..Len(env.tiles) :
                  workerRes.csv.table[i].vals[r] = None

=============================================================================
